---- MODULE Spec2Model ----
(***************************************************************************)
(* Financial analytics backend (backend/server.py): column detection,      *)
(* numeric cleaning, KPI calculation and the /api routes over the          *)
(* financial_data collection.                                              *)
(*                                                                         *)
(* Text is a sequence of one-character strings, so that substring tests,   *)
(* case folding and parsing are computed rather than assumed.  Characters  *)
(* outside ASCII are written by code point ("U+20AC" is the euro sign).    *)
(* Float values are held as integers counting hundredths; every text in    *)
(* the input pools has at most two fractional digits.                      *)
(***************************************************************************)
EXTENDS Integers, Sequences, FiniteSets, TLC

VARIABLES
    db,         \* the financial_data collection: sequence of stored documents
    resp,       \* the last HTTP response
    issued,     \* ids the client received from uploads answered 200
    columns,    \* df.columns handed to detect_columns
    detected,   \* result of detect_columns
    df,         \* dataframe handed to calculate_kpis
    mapping,    \* detected_columns argument of calculate_kpis
    kpis,       \* result of calculate_kpis
    value,      \* argument of clean_numeric_value
    cleaned,    \* result of clean_numeric_value
    pc          \* position of the function call under check

vars == <<db, resp, issued, columns, detected, df, mapping, kpis, value, cleaned, pc>>

(***************************************************************************)
(* Bounds of the model.                                                    *)
(***************************************************************************)
MaxUploads == 2
MaxHeaders == 3
MaxRows == 2
MaxPad == 1

(***************************************************************************)
(* Text helpers: str.lower, str.replace, the `in` operator on strings,     *)
(* str.endswith.                                                           *)
(***************************************************************************)
UpperChars == <<"A","B","C","D","E","F","G","H","I","J","K","L","M",
                "N","O","P","Q","R","S","T","U","V","W","X","Y","Z">>
LowerChars == <<"a","b","c","d","e","f","g","h","i","j","k","l","m",
                "n","o","p","q","r","s","t","u","v","w","x","y","z">>

LowerChar(c) ==
    IF \E i \in 1..Len(UpperChars) : UpperChars[i] = c
    THEN LowerChars[CHOOSE i \in 1..Len(UpperChars) : UpperChars[i] = c]
    ELSE c

StrLower(s) == [i \in 1..Len(s) |-> LowerChar(s[i])]

StrReplaceChar(s, old, new) == [i \in 1..Len(s) |-> IF s[i] = old THEN new ELSE s[i]]

\* Python `a in b` for strings: a occurs in b as a contiguous run
StrIn(a, b) ==
    \E i \in 0..(Len(b) - Len(a)) : SubSeq(b, i + 1, i + Len(a)) = a

StrEndsWith(s, suffix) ==
    /\ Len(s) >= Len(suffix)
    /\ SubSeq(s, Len(s) - Len(suffix) + 1, Len(s)) = suffix

(***************************************************************************)
(* COLUMN_PATTERNS, in the dict's insertion order.                         *)
(***************************************************************************)
COLUMN_PATTERNS == <<
    [financial_type |-> "revenus", patterns |-> <<
        <<"r","e","v","e","n","u","s">>,
        <<"r","e","v","e","n","u","e">>,
        <<"s","a","l","e","s">>,
        <<"v","e","n","t","e","s">>,
        <<"c","h","i","f","f","r","e","_","a","f","f","a","i","r","e","s">>,
        <<"c","a">>,
        <<"t","u","r","n","o","v","e","r">>,
        <<"i","n","c","o","m","e">>>>],
    [financial_type |-> "charges", patterns |-> <<
        <<"c","h","a","r","g","e","s">>,
        <<"e","x","p","e","n","s","e","s">>,
        <<"c","o","s","t","s">>,
        <<"d","e","p","e","n","s","e","s">>,
        <<"c","h","a","r","g","e","s","_","o","p","e","r","a","t","i","o","n","n","e","l","l","e","s">>,
        <<"o","p","e","r","a","t","i","n","g","_","e","x","p","e","n","s","e","s">>>>],
    [financial_type |-> "ebitda", patterns |-> <<
        <<"e","b","i","t","d","a">>,
        <<"e","a","r","n","i","n","g","s","_","b","e","f","o","r","e","_","i","n","t","e","r","e","s","t","_","t","a","x","e","s","_","d","e","p","r","e","c","i","a","t","i","o","n","_","a","m","o","r","t","i","z","a","t","i","o","n">>>>],
    [financial_type |-> "resultat_operationnel", patterns |-> <<
        <<"r","e","s","u","l","t","a","t","_","o","p","e","r","a","t","i","o","n","n","e","l">>,
        <<"o","p","e","r","a","t","i","n","g","_","i","n","c","o","m","e">>,
        <<"o","p","e","r","a","t","i","n","g","_","r","e","s","u","l","t">>,
        <<"e","b","i","t">>>>],
    [financial_type |-> "amortissements", patterns |-> <<
        <<"a","m","o","r","t","i","s","s","e","m","e","n","t","s">>,
        <<"d","e","p","r","e","c","i","a","t","i","o","n">>,
        <<"a","m","o","r","t","i","z","a","t","i","o","n">>,
        <<"d","e","p","r","e","c","i","a","t","i","o","n","_","a","m","o","r","t","i","z","a","t","i","o","n">>>>],
    [financial_type |-> "resultat_net", patterns |-> <<
        <<"r","e","s","u","l","t","a","t","_","n","e","t">>,
        <<"n","e","t","_","i","n","c","o","m","e">>,
        <<"n","e","t","_","p","r","o","f","i","t">>,
        <<"b","e","n","e","f","i","c","e","_","n","e","t">>,
        <<"p","r","o","f","i","t">>>>],
    [financial_type |-> "impots", patterns |-> <<
        <<"i","m","p","o","t","s">>,
        <<"t","a","x","e","s">>,
        <<"t","a","x">>,
        <<"i","m","p","o","t","_","s","o","c","i","e","t","e","s">>>>],
    [financial_type |-> "cash_flow", patterns |-> <<
        <<"c","a","s","h","_","f","l","o","w">>,
        <<"c","a","s","h","f","l","o","w">>,
        <<"f","l","u","x","_","t","r","e","s","o","r","e","r","i","e">>>>],
    [financial_type |-> "investissements", patterns |-> <<
        <<"i","n","v","e","s","t","i","s","s","e","m","e","n","t","s">>,
        <<"i","n","v","e","s","t","m","e","n","t","s">>,
        <<"c","a","p","e","x">>,
        <<"c","a","p","i","t","a","l","_","e","x","p","e","n","d","i","t","u","r","e">>>>],
    [financial_type |-> "date", patterns |-> <<
        <<"d","a","t","e">>,
        <<"p","e","r","i","o","d","e">>,
        <<"m","o","n","t","h">>,
        <<"m","o","i","s">>,
        <<"y","e","a","r">>,
        <<"a","n","n","e","e">>,
        <<"t","r","i","m","e","s","t","r","e">>,
        <<"q","u","a","r","t","e","r">>>>]>>

FinancialTypes == {COLUMN_PATTERNS[i].financial_type : i \in 1..Len(COLUMN_PATTERNS)}

PatternsOf(financial_type) ==
    COLUMN_PATTERNS[CHOOSE i \in 1..Len(COLUMN_PATTERNS) :
        COLUMN_PATTERNS[i].financial_type = financial_type].patterns

(***************************************************************************)
(* detect_columns                                                          *)
(***************************************************************************)
\* col.lower().replace(' ', '_').replace('-', '_')
NormalizeColumn(col) == StrReplaceChar(StrReplaceChar(StrLower(col), " ", "_"), "-", "_")

\* variant: only `col in pattern` is tested
PatternMatchesContainedOnly(pattern, col) == StrIn(col, pattern)

\* the test of the innermost loop
PatternMatches(pattern, col) == StrIn(pattern, col) \/ StrIn(col, pattern)

\* for pattern in patterns: ... break on the first match
RECURSIVE AnyPatternFrom(_, _, _)
AnyPatternFrom(patterns, k, col) ==
    IF k > Len(patterns) THEN FALSE
    ELSE IF PatternMatches(patterns[k], col) THEN TRUE
    ELSE AnyPatternFrom(patterns, k + 1, col)

\* variant: the scan does not stop at the first match, the last one wins
ScanColumnsLast(patterns, cols, col_idx) ==
    LET hits == {i \in col_idx..Len(cols) : AnyPatternFrom(patterns, 1, cols[i])}
    IN  IF hits = {} THEN 0 ELSE CHOOSE i \in hits : \A j \in hits : j <= i

\* for col_idx, col in enumerate(columns): index of the first column that
\* matches, 0 when the loop ends without a match
RECURSIVE ScanColumnsFrom(_, _, _)
ScanColumnsFrom(patterns, cols, col_idx) ==
    IF col_idx > Len(cols) THEN 0
    ELSE IF AnyPatternFrom(patterns, 1, cols[col_idx]) THEN col_idx
    ELSE ScanColumnsFrom(patterns, cols, col_idx + 1)

\* for financial_type, patterns in COLUMN_PATTERNS.items()
RECURSIVE DetectFrom(_, _, _)
DetectFrom(t, dfcolumns, acc) ==
    IF t > Len(COLUMN_PATTERNS) THEN acc
    ELSE LET cols == [i \in 1..Len(dfcolumns) |-> NormalizeColumn(dfcolumns[i])]
             hit == ScanColumnsFrom(COLUMN_PATTERNS[t].patterns, cols, 1)
         IN  IF hit = 0 THEN DetectFrom(t + 1, dfcolumns, acc)
             ELSE DetectFrom(t + 1, dfcolumns,
                     acc @@ (COLUMN_PATTERNS[t].financial_type :> dfcolumns[hit]))

detect_columns(dfcolumns) == DetectFrom(1, dfcolumns, <<>>)

(***************************************************************************)
(* Cell values as pandas hands them to clean_numeric_value: a missing      *)
(* value (NaN/None), a number, or text.                                    *)
(***************************************************************************)
Hundredths(n) == n * (10 * 10)

NaNCell == [kind |-> "nan", num |-> 0, str |-> <<>>]
NumCell(n) == [kind |-> "num", num |-> Hundredths(n), str |-> <<>>]
StrCell(s) == [kind |-> "str", num |-> 0, str |-> s]

Whitespace == {" "}

\* the character class of the re.sub call, read character by character from
\* the source file: U+00E2 U+201A U+00AC $ U+00C2 U+0141 U+00C2 U+0104
\* U+00E2 U+201A U+0105 \s
SubClass ==
    {"U+00E2", "U+201A", "U+00AC", "$", "U+00C2", "U+0141", "U+0104", "U+0105"}
        \cup Whitespace

\* str.strip()
RECURSIVE StrLStrip(_)
StrLStrip(s) ==
    IF s # <<>> /\ Head(s) \in Whitespace THEN StrLStrip(Tail(s)) ELSE s
RECURSIVE StrRStrip(_)
StrRStrip(s) ==
    IF s # <<>> /\ s[Len(s)] \in Whitespace
    THEN StrRStrip(SubSeq(s, 1, Len(s) - 1)) ELSE s
StrStrip(s) == StrRStrip(StrLStrip(s))

\* re.sub(r'[...]', '', s)
ReSubRemove(class, s) == SelectSeq(s, LAMBDA c : c \notin class)

Digits == <<"0","1","2","3","4","5","6","7","8","9">>
IsDigit(c) == \E i \in 1..Len(Digits) : Digits[i] = c
DigitVal(c) == (CHOOSE i \in 1..Len(Digits) : Digits[i] = c) - 1
AllDigits(s) == \A i \in 1..Len(s) : IsDigit(s[i])

RECURSIVE DigitsValue(_)
DigitsValue(s) ==
    IF s = <<>> THEN 0
    ELSE DigitsValue(SubSeq(s, 1, Len(s) - 1)) * 10 + DigitVal(s[Len(s)])

\* float(s) on text made of signs, digits and periods: [sign] digits [. digits]
\* with at least one digit.  (Exponents, inf, nan and underscores are not
\* modelled; no text of the input pools holds them.)
FloatUnsigned(s) ==
    LET dots == {i \in 1..Len(s) : s[i] = "."}
    IN  IF dots = {} THEN
            [ok |-> s # <<>> /\ AllDigits(s),
             val |-> IF AllDigits(s) THEN Hundredths(DigitsValue(s)) ELSE 0]
        ELSE
            LET d == CHOOSE i \in dots : TRUE
                ip == SubSeq(s, 1, d - 1)
                fp == SubSeq(s, d + 1, Len(s))
                good == /\ Cardinality(dots) = 1
                        /\ AllDigits(ip) /\ AllDigits(fp)
                        /\ Len(ip) + Len(fp) > 0
                f2 == SubSeq(fp \o <<"0","0">>, 1, 2)
            IN  [ok |-> good,
                 val |-> IF good THEN Hundredths(DigitsValue(ip)) + DigitsValue(f2)
                         ELSE 0]

PyFloat(s) ==
    IF s # <<>> /\ Head(s) = "-"
    THEN LET r == FloatUnsigned(Tail(s)) IN [ok |-> r.ok, val |-> 0 - r.val]
    ELSE IF s # <<>> /\ Head(s) = "+" THEN FloatUnsigned(Tail(s))
    ELSE FloatUnsigned(s)

(***************************************************************************)
(* clean_numeric_value                                                     *)
(***************************************************************************)
clean_numeric_value(v) ==
    IF v.kind = "nan" \/ (v.kind = "str" /\ v.str = <<>>) THEN 0
    ELSE IF v.kind = "num" THEN v.num
    ELSE LET stripped == StrStrip(v.str)
             removed == ReSubRemove(SubClass, stripped)
             str_value == StrReplaceChar(removed, ",", ".")
             parsed == PyFloat(str_value)
         IN  IF parsed.ok THEN parsed.val ELSE 0

(***************************************************************************)
(* calculate_kpis.  A dataframe is [columns, rows]; a row holds one cell   *)
(* per column.                                                             *)
(***************************************************************************)
ColumnIndex(frame, col_name) ==
    IF \E i \in 1..Len(frame.columns) : frame.columns[i] = col_name
    THEN CHOOSE i \in 1..Len(frame.columns) : frame.columns[i] = col_name
    ELSE 0

RECURSIVE SumCells(_, _, _)
SumCells(rows, c, r) ==
    IF r > Len(rows) THEN 0
    ELSE clean_numeric_value(rows[r][c]) + SumCells(rows, c, r + 1)

\* variant: the column's mean instead of its sum
get_column_mean(frame, detected_columns, column_type) ==
    IF column_type \in DOMAIN detected_columns
    THEN LET c == ColumnIndex(frame, detected_columns[column_type])
         IN  IF c # 0 /\ Len(frame.rows) > 0
             THEN SumCells(frame.rows, c, 1) \div Len(frame.rows) ELSE 0
    ELSE 0

get_column_sum(frame, detected_columns, column_type) ==
    IF column_type \in DOMAIN detected_columns
    THEN LET c == ColumnIndex(frame, detected_columns[column_type])
         IN  IF c # 0 THEN SumCells(frame.rows, c, 1) ELSE 0
    ELSE 0

\* variant: the guard is >= 0
KpiEbitdaNonNegative(frame, dc, revenus_totaux) ==
    LET resultat_op == get_column_sum(frame, dc, "resultat_operationnel")
        amortissements == get_column_sum(frame, dc, "amortissements")
    IN  IF resultat_op >= 0 THEN resultat_op + amortissements
        ELSE revenus_totaux - get_column_sum(frame, dc, "charges")

\* 2. EBITDA calculation
KpiEbitda(frame, dc, revenus_totaux) ==
    LET resultat_op == get_column_sum(frame, dc, "resultat_operationnel")
        amortissements == get_column_sum(frame, dc, "amortissements")
    IN  IF resultat_op > 0 THEN resultat_op + amortissements
        ELSE revenus_totaux - get_column_sum(frame, dc, "charges")

\* 3. Net Income
KpiResultatNet(frame, dc, revenus_totaux) ==
    LET net_income == get_column_sum(frame, dc, "resultat_net")
    IN  IF net_income > 0 THEN net_income
        ELSE revenus_totaux - get_column_sum(frame, dc, "charges")
                            - get_column_sum(frame, dc, "impots")

\* variant: investments are added
KpiFreeCashFlowAdds(frame, dc, resultat_net) ==
    LET cash_flow == get_column_sum(frame, dc, "cash_flow")
        investissements == get_column_sum(frame, dc, "investissements")
    IN  IF cash_flow > 0 THEN cash_flow + investissements
        ELSE resultat_net + investissements

\* variant: the fallback reads the raw resultat_net column sum
KpiFreeCashFlowRawNet(frame, dc, resultat_net) ==
    LET cash_flow == get_column_sum(frame, dc, "cash_flow")
        investissements == get_column_sum(frame, dc, "investissements")
    IN  IF cash_flow > 0 THEN cash_flow - investissements
        ELSE get_column_sum(frame, dc, "resultat_net") - investissements

\* 4. Free Cash Flow
KpiFreeCashFlow(frame, dc, resultat_net) ==
    LET cash_flow == get_column_sum(frame, dc, "cash_flow")
        investissements == get_column_sum(frame, dc, "investissements")
    IN  IF cash_flow > 0 THEN cash_flow - investissements
        ELSE resultat_net - investissements

\* A quotient is held exactly, as a fraction in lowest terms
RECURSIVE Gcd(_, _)
Gcd(a, b) == IF b = 0 THEN a ELSE Gcd(b, a % b)
Abs(a) == IF a < 0 THEN 0 - a ELSE a
Fraction(n, d) ==
    LET g == Gcd(Abs(n), d) IN [num |-> n \div g, den |-> d \div g]
ZeroFraction == [num |-> 0, den |-> 1]

\* 5. Net Margin (%): (resultat_net / revenus_totaux) * 100
KpiMargeNette(resultat_net, revenus_totaux) ==
    IF revenus_totaux > 0
    THEN LET q == Fraction(resultat_net, revenus_totaux)
         IN  Fraction(q.num * 100, q.den)
    ELSE ZeroFraction

calculate_kpis(frame, detected_columns) ==
    LET revenus_totaux == get_column_sum(frame, detected_columns, "revenus")
        ebitda == KpiEbitda(frame, detected_columns, revenus_totaux)
        resultat_net == KpiResultatNet(frame, detected_columns, revenus_totaux)
        free_cash_flow == KpiFreeCashFlow(frame, detected_columns, resultat_net)
        marge_nette == KpiMargeNette(resultat_net, revenus_totaux)
    IN  [revenus_totaux |-> revenus_totaux,
         ebitda |-> ebitda,
         resultat_net |-> resultat_net,
         free_cash_flow |-> free_cash_flow,
         marge_nette |-> marge_nette]

\* kpis = {...: 0.0} at the top of calculate_kpis
InitialKpis ==
    [revenus_totaux |-> 0, ebitda |-> 0, resultat_net |-> 0,
     free_cash_flow |-> 0, marge_nette |-> ZeroFraction]

(***************************************************************************)
(* The /api routes.  A handler's try block either returns a response or    *)
(* raises; `except Exception` catches everything raised in the block,      *)
(* HTTPException included, and raises HTTPException(500) in its place.     *)
(***************************************************************************)
NoBody == [id |-> 0, detected_columns |-> <<>>, kpis |-> InitialKpis]

Returned(status, body, store) ==
    [raised |-> FALSE, status |-> status, body |-> body, store |-> store]
Raised(exception, status, store) ==
    [raised |-> TRUE, exception |-> exception, status |-> status,
     body |-> NoBody, store |-> store]

\* except Exception as e: raise HTTPException(status_code=500, ...)
ExceptException(outcome) ==
    IF outcome.raised
    THEN [status |-> 500, body |-> NoBody, store |-> outcome.store]
    ELSE [status |-> outcome.status, body |-> outcome.body, store |-> outcome.store]

\* FinancialData(...).dict() as stored: id is a fresh uuid4, upload_date a
\* datetime; insert_one adds the ObjectId key
FinancialData(id, filename, frame, detected_columns, k) ==
    [id |-> id,
     filename |-> filename,
     upload_date |-> [type |-> "datetime"],
     raw_data |-> frame.rows,
     detected_columns |-> detected_columns,
     kpis |-> k,
     object_id |-> [type |-> "ObjectId"]]

\* JSONResponse renders with json.dumps(..., allow_nan=False): a datetime or
\* an ObjectId raises TypeError, a NaN raises ValueError
JsonTypes == {"str", "float", "int", "list", "dict"}
DocumentRenders(doc) ==
    doc.upload_date.type \in JsonTypes /\ doc.object_id.type \in JsonTypes

Min(a, b) == IF a < b THEN a ELSE b
\* df.head(5).to_dict('records') holds a NaN
PreviewHasNaN(frame) ==
    \E r \in 1..Min(5, Len(frame.rows)) :
        \E c \in 1..Len(frame.rows[r]) : frame.rows[r][c].kind = "nan"

CsvSuffix == <<".","c","s","v">>

\* lines 181-198: build the document, insert_one, render the response
UploadStore(filename, frame, detected_columns, k, store) ==
    IF PreviewHasNaN(frame)
    THEN Raised("ValueError", 0,
            Append(store,
                FinancialData(Len(store) + 1, filename, frame, detected_columns, k)))
    ELSE Returned(200,
            [id |-> Len(store) + 1, detected_columns |-> detected_columns, kpis |-> k],
            Append(store,
                FinancialData(Len(store) + 1, filename, frame, detected_columns, k)))

\* kpis = calculate_kpis(df, detected_columns)
UploadCalculate(filename, frame, detected_columns, store) ==
    UploadStore(filename, frame, detected_columns,
                calculate_kpis(frame, detected_columns), store)

\* the try block: file type check, read_csv, detect_columns, then the rest
UploadTry(filename, content, store) ==
    IF ~StrEndsWith(filename, CsvSuffix)
    THEN Raised("HTTPException", 400, store)
    ELSE IF ~content.parses
    THEN Raised("EmptyDataError", 0, store)
    ELSE UploadCalculate(filename, content.frame,
                         detect_columns(content.frame.columns), store)

upload_csv(filename, content, store) ==
    ExceptException(UploadTry(filename, content, store))

\* db.financial_data.find_one({"id": data_id})
HasId(store, data_id) == \E i \in 1..Len(store) : store[i].id = data_id
FindOne(store, data_id) ==
    store[CHOOSE i \in 1..Len(store) : store[i].id = data_id]

GetTry(data_id, store) ==
    IF ~HasId(store, data_id)
    THEN Raised("HTTPException", 404, store)
    ELSE IF ~DocumentRenders(FindOne(store, data_id))
    THEN Raised("TypeError", 0, store)
    ELSE Returned(200, NoBody, store)

get_financial_data(data_id, store) == ExceptException(GetTry(data_id, store))

GetAllTry(store) ==
    IF \E i \in 1..Min(100, Len(store)) : ~DocumentRenders(store[i])
    THEN Raised("TypeError", 0, store)
    ELSE Returned(200, NoBody, store)

get_all_financial_data(store) == ExceptException(GetAllTry(store))

(***************************************************************************)
(* Input pools.                                                            *)
(***************************************************************************)
SeqsUpTo(S, n) == UNION {[1..k -> S] : k \in 0..n}
DistinctSeqsUpTo(S, n) ==
    {s \in SeqsUpTo(S, n) : \A i, j \in 1..Len(s) : i # j => s[i] # s[j]}

\* create_sample_csv of the API test, as read_csv parses it
SampleColumns ==
    << <<"D","a","t","e">>,
       <<"R","e","v","e","n","u","s">>,
       <<"C","h","a","r","g","e","s">>,
       <<"E","B","I","T","D","A">>,
       <<"R","e","s","u","l","t","a","t","_","N","e","t">>,
       <<"C","a","s","h","_","F","l","o","w">>,
       <<"I","n","v","e","s","t","i","s","s","e","m","e","n","t","s">> >>

SampleMonth(m) == StrCell(<<"2","0","2","4","-","0",m>>)

SampleRows(e) ==
    << <<SampleMonth("1"), NumCell(100000), NumCell(60000), e[1], NumCell(25000), NumCell(30000), NumCell(5000)>>,
       <<SampleMonth("2"), NumCell(120000), NumCell(70000), e[2], NumCell(30000), NumCell(35000), NumCell(8000)>>,
       <<SampleMonth("3"), NumCell(110000), NumCell(65000), e[3], NumCell(28000), NumCell(32000), NumCell(6000)>>,
       <<SampleMonth("4"), NumCell(130000), NumCell(75000), e[4], NumCell(35000), NumCell(40000), NumCell(10000)>>,
       <<SampleMonth("5"), NumCell(125000), NumCell(72000), e[5], NumCell(33000), NumCell(38000), NumCell(7000)>> >>

\* the EBITDA column of the test, and other contents for it
EbitdaColumns ==
    { <<NumCell(45000), NumCell(55000), NumCell(50000), NumCell(60000), NumCell(58000)>>,
      <<NumCell(1), NumCell(2), NumCell(3), NumCell(4), NumCell(5)>>,
      <<NumCell(0), NumCell(0), NumCell(0), NumCell(0), NumCell(0)>> }

SampleFrame(e) == [columns |-> SampleColumns, rows |-> SampleRows(e)]

\* a file with a blank cell, a file of one header line, an empty file
BlankCellFrame ==
    [columns |-> << <<"C","A">>, <<"T","a","x">> >>,
     rows |-> << <<NumCell(1200), NaNCell>> >>]
HeaderOnlyFrame ==
    [columns |-> << <<"T","h","i","s"," ","i","s"," ","n","o","t"," ","a"," ","C","S","V"," ","f","i","l","e">> >>,
     rows |-> <<>>]
EmptyFrame == [columns |-> <<>>, rows |-> <<>>]

Contents ==
    {[parses |-> TRUE, frame |-> SampleFrame(e)] : e \in EbitdaColumns}
        \cup {[parses |-> TRUE, frame |-> BlankCellFrame],
              [parses |-> TRUE, frame |-> HeaderOnlyFrame],
              [parses |-> FALSE, frame |-> EmptyFrame]}

Filenames ==
    { <<"t","e","s","t",".","t","x","t">>,
      <<"t","e","s","t","_","f","i","n","a","n","c","i","a","l","_","d","a","t","a",".","c","s","v">>,
      <<"e","x","p","o","r","t",".","c","s","v",".","t","x","t">> }

\* ids a client asks for: 0 stands for an id no upload ever returns
DataIds == 0..MaxUploads

HeaderPool ==
    { <<"D","a","t","e">>, <<"R","e","v","e","n","u","s">>, <<"E","B","I","T","D","A">>,
      <<"N","e","t"," ","I","n","c","o","m","e">>, <<"C","a","s","h","-","F","l","o","w">>,
      <<"C","A">>, <<"T","a","x">>, <<"N","o","t","e","s">>, <<"A">> }

\* dataframes for calculate_kpis: three columns, rows from a pool
KpiColumns == << <<"A">>, <<"B">>, <<"C">> >>
GhostColumn == <<"Z">>
ZeroRows ==
    { <<NumCell(0), NaNCell, StrCell(<<"0",",","0","0">>)>>,
      <<NaNCell, StrCell(<<>>), NumCell(0)>> }
DataRows ==
    { <<NumCell(500), NumCell(0 - 300), StrCell(<<"1","2","3","4",",","5","6">>)>>,
      <<StrCell(<<" ","$","1","2","0","0">>), NumCell(100), StrCell(<<"a","b","c">>)>> }
RowPool == ZeroRows \cup DataRows

\* detected_columns arguments: per category, no entry (Absent) or one header
Absent == <<>>
MappingOf(choice) ==
    [t \in {u \in DOMAIN choice : choice[u] # Absent} |-> choice[t]]
MappingPool ==
    {MappingOf([revenus |-> a, resultat_operationnel |-> b, resultat_net |-> c,
                cash_flow |-> d, charges |-> e, amortissements |-> f,
                impots |-> g, investissements |-> h]) :
        a \in {Absent, <<"A">>, <<"B">>}, b \in {Absent, <<"A">>, <<"B">>},
        c \in {Absent, <<"A">>, <<"B">>}, d \in {Absent, <<"A">>, <<"B">>},
        e \in {Absent, <<"C">>}, f \in {Absent, <<"C">>},
        g \in {Absent, GhostColumn}, h \in {Absent, <<"A">>}}

\* arguments of clean_numeric_value: missing, numbers, and texts made of a
\* core between two runs of currency symbols and spaces
PadChars == {"$", "U+20AC", "U+00A3", "U+00A5", "U+20B9", " "}
Cores ==
    { <<"1","2","0","0">>, <<"1","2","3","4",",","5","6">>, <<"a","b","c">>,
      <<"-","5">>, <<"1","2",".","5">>, <<".","5">>, <<"1",".","2",".","3">>, <<>> }
Texts ==
    {p \o c \o q : p \in SeqsUpTo(PadChars, MaxPad), c \in Cores,
                   q \in SeqsUpTo(PadChars, MaxPad)}
Values ==
    {NaNCell, NumCell(0), NumCell(42), NumCell(0 - 7)} \cup {StrCell(s) : s \in Texts}

(***************************************************************************)
(* State machines.  Spec is the API over the collection; SpecDetect,       *)
(* SpecKpis and SpecClean call one function each on drawn arguments.       *)
(***************************************************************************)
NoResponse == [route |-> "none", status |-> 0, request |-> <<>>, body |-> NoBody]
NoFrame == [columns |-> <<>>, rows |-> <<>>]

apiVars == <<db, resp, issued>>
detectVars == <<columns, detected>>
kpiVars == <<df, mapping, kpis>>
cleanVars == <<value, cleaned>>

ApiIdle == db = <<>> /\ resp = NoResponse /\ issued = {}
DetectIdle == columns = <<>> /\ detected = <<>>
KpiIdle == df = NoFrame /\ mapping = <<>> /\ kpis = InitialKpis
CleanIdle == value = NaNCell /\ cleaned = 0

\* ---- the API -----------------------------------------------------------
Init ==
    /\ ApiIdle /\ DetectIdle /\ KpiIdle /\ CleanIdle
    /\ pc = "serving"

\* POST /api/upload-csv, answered with r
UploadAnswered(filename, content, r) ==
    /\ Len(r.store) <= MaxUploads
    /\ db' = r.store
    /\ resp' = [route |-> "upload", status |-> r.status,
                request |-> [filename |-> filename, content |-> content],
                body |-> r.body]
    /\ issued' = IF r.status = 200 THEN issued \cup {r.body.id} ELSE issued
    /\ UNCHANGED <<detectVars, kpiVars, cleanVars, pc>>

Upload(filename, content) ==
    UploadAnswered(filename, content, upload_csv(filename, content, db))

\* GET /api/financial-data/{data_id}, answered with r
GetAnswered(data_id, r) ==
    /\ db' = r.store
    /\ resp' = [route |-> "get", status |-> r.status,
                request |-> [data_id |-> data_id], body |-> r.body]
    /\ UNCHANGED <<issued, detectVars, kpiVars, cleanVars, pc>>

GetFinancialData(data_id) == GetAnswered(data_id, get_financial_data(data_id, db))

\* GET /api/financial-data, answered with r
GetAllAnswered(r) ==
    /\ db' = r.store
    /\ resp' = [route |-> "list", status |-> r.status,
                request |-> <<>>, body |-> r.body]
    /\ UNCHANGED <<issued, detectVars, kpiVars, cleanVars, pc>>

GetAllFinancialData == GetAllAnswered(get_all_financial_data(db))

\* GET /api/
Root ==
    /\ resp' = [route |-> "root", status |-> 200, request |-> <<>>, body |-> NoBody]
    /\ UNCHANGED <<db, issued, detectVars, kpiVars, cleanVars, pc>>

Next ==
    \/ \E filename \in Filenames, content \in Contents : Upload(filename, content)
    \/ \E data_id \in DataIds : GetFinancialData(data_id)
    \/ GetAllFinancialData
    \/ Root

Spec == Init /\ [][Next]_vars

\* ---- detect_columns ------------------------------------------------------
InitDetect ==
    /\ ApiIdle /\ KpiIdle /\ CleanIdle
    /\ columns \in DistinctSeqsUpTo(HeaderPool, MaxHeaders)
    /\ detected = <<>>
    /\ pc = "call"

Detect ==
    /\ pc = "call"
    /\ detected' = detect_columns(columns)
    /\ pc' = "done"
    /\ UNCHANGED <<columns, apiVars, kpiVars, cleanVars>>

NextDetect == Detect

SpecDetect == InitDetect /\ [][NextDetect]_vars

\* ---- calculate_kpis ------------------------------------------------------
InitKpis ==
    /\ ApiIdle /\ DetectIdle /\ CleanIdle
    /\ df = [columns |-> KpiColumns, rows |-> <<>>]
    /\ mapping \in MappingPool
    /\ kpis = InitialKpis
    /\ pc = "call"

Calculate ==
    /\ pc = "call"
    /\ kpis' = calculate_kpis(df, mapping)
    /\ pc' = "done"
    /\ UNCHANGED <<df, mapping, apiVars, detectVars, cleanVars>>

InsertAt(rows, pos, row) ==
    SubSeq(rows, 1, pos - 1) \o <<row>> \o SubSeq(rows, pos, Len(rows))

\* the caller's dataset gains a row and the KPIs are calculated again
InsertRow(pos, row) ==
    /\ pc = "done"
    /\ Len(df.rows) < MaxRows
    /\ df' = [df EXCEPT !.rows = InsertAt(df.rows, pos, row)]
    /\ kpis' = calculate_kpis(df', mapping)
    /\ UNCHANGED <<mapping, pc, apiVars, detectVars, cleanVars>>

NextKpis ==
    \/ Calculate
    \/ \E pos \in 1..(MaxRows + 1), row \in RowPool :
           pos <= Len(df.rows) + 1 /\ InsertRow(pos, row)

SpecKpis == InitKpis /\ [][NextKpis]_vars

\* ---- clean_numeric_value -------------------------------------------------
InitClean ==
    /\ ApiIdle /\ DetectIdle /\ KpiIdle
    /\ value \in Values
    /\ cleaned = 0
    /\ pc = "call"

Clean ==
    /\ pc = "call"
    /\ cleaned' = clean_numeric_value(value)
    /\ pc' = "done"
    /\ UNCHANGED <<value, apiVars, detectVars, kpiVars>>

NextClean == Clean

SpecClean == InitClean /\ [][NextClean]_vars

(***************************************************************************)
(* Properties.                                                             *)
(***************************************************************************)
RECURSIVE SumSeq(_)
SumSeq(s) == IF s = <<>> THEN 0 ELSE Head(s) + SumSeq(Tail(s))

\* the sum of a category's column as the specification words it: 0 when the
\* category has no entry or its header is not a column of the dataset
SpecColumnSum(frame, dc, t) ==
    IF t \in DOMAIN dc /\ (\E c \in 1..Len(frame.columns) : frame.columns[c] = dc[t])
    THEN LET c == CHOOSE c \in 1..Len(frame.columns) : frame.columns[c] = dc[t]
         IN  SumSeq([r \in 1..Len(frame.rows) |-> clean_numeric_value(frame.rows[r][c])])
    ELSE 0

SampleUploadAnswered ==
    /\ resp.route = "upload"
    /\ resp.status = 200
    /\ resp.request.content.frame.columns = SampleColumns

EbitdaHeader == <<"E","B","I","T","D","A">>
UploadedEbitdaSum ==
    SumSeq([r \in 1..Len(resp.request.content.frame.rows) |->
               resp.request.content.frame.rows[r][4].num])
UploadedFallbackEbitda ==
    SpecColumnSum(resp.request.content.frame, resp.body.detected_columns, "revenus")
        - SpecColumnSum(resp.request.content.frame, resp.body.detected_columns, "charges")

\* C1 as stated: on the sample headers the resultat_operationnel category has
\* no matching header and, whatever positive values the EBITDA column holds,
\* ebitda = revenus_totaux - columnSum(charges), 243000 on the sample rows
C1_EbitdaFallbackOnSample ==
    (SampleUploadAnswered /\ UploadedEbitdaSum > 0) =>
        /\ "resultat_operationnel" \notin DOMAIN resp.body.detected_columns
        /\ resp.body.kpis.ebitda = UploadedFallbackEbitda
        /\ resp.body.kpis.ebitda = Hundredths(243000)

\* C1 amended: on the sample headers detect records the header EBITDA for
\* resultat_operationnel (its pattern "ebit" occurs in "ebitda") and nothing
\* for amortissements, so ebitda is the sum of the EBITDA column when that sum
\* is positive, and revenus_totaux - columnSum(charges) = 243000 only when it
\* is not
C1_EbitdaFromEbitdaColumn ==
    SampleUploadAnswered =>
        /\ "resultat_operationnel" \in DOMAIN resp.body.detected_columns
        /\ resp.body.detected_columns["resultat_operationnel"] = EbitdaHeader
        /\ "amortissements" \notin DOMAIN resp.body.detected_columns
        /\ resp.body.kpis.ebitda =
              IF UploadedEbitdaSum > 0 THEN UploadedEbitdaSum
              ELSE Hundredths(243000)

C1_Witness ==
    /\ SampleUploadAnswered
    /\ UploadedEbitdaSum = Hundredths(268000)
    /\ resp.body.kpis.ebitda = Hundredths(268000)

\* C2: an upload whose filename does not end in .csv is answered with 400
C2_NonCsvAnswered400 ==
    (resp.route = "upload" /\ ~StrEndsWith(resp.request.filename, CsvSuffix)) =>
        resp.status = 400

\* C3: a GET for an id that no stored record carries is answered with 404
C3_UnknownIdAnswered404 ==
    (resp.route = "get" /\ ~HasId(db, resp.request.data_id)) => resp.status = 404

\* C4: a GET for an id that an upload answered with 200 is answered with 200
C4_IssuedIdAnswered200 ==
    (resp.route = "get" /\ resp.request.data_id \in issued) => resp.status = 200

\* C5: normalize removes every symbol of $ EUR GBP JPY INR and all whitespace,
\* turns commas into periods and parses; so it returns the number written
\* between the symbols, 1200.0 for the euro sign followed by 1200, 1234.56
\* for "1234,56" and 0.0 for "abc"
CurrencySymbols == {"$", "U+20AC", "U+00A3", "U+00A5", "U+20B9"}
SpecNormalize(text) ==
    LET bare == SelectSeq(text, LAMBDA c : c \notin CurrencySymbols \cup Whitespace)
        parsed == PyFloat(StrReplaceChar(bare, ",", "."))
    IN  IF parsed.ok THEN parsed.val ELSE 0
C5_CleanRemovesCurrencySymbols ==
    (pc = "done" /\ value.kind = "str") =>
        /\ cleaned = SpecNormalize(value.str)
        /\ value.str = <<"U+20AC","1","2","0","0">> => cleaned = Hundredths(1200)
        /\ value.str = <<"1","2","3","4",",","5","6">> => cleaned = 123456
        /\ value.str = <<"a","b","c">> => cleaned = 0

\* C6: calculate returns the five fields of the specification's formulas,
\* evaluated in order, a sum that is not positive taking the fallback
SpecKpiFormulas(frame, dc) ==
    LET S(t) == SpecColumnSum(frame, dc, t)
        revenus_totaux == S("revenus")
        ebitda == IF S("resultat_operationnel") > 0
                  THEN S("resultat_operationnel") + S("amortissements")
                  ELSE revenus_totaux - S("charges")
        resultat_net == IF S("resultat_net") > 0 THEN S("resultat_net")
                        ELSE revenus_totaux - S("charges") - S("impots")
        free_cash_flow == IF S("cash_flow") > 0
                          THEN S("cash_flow") - S("investissements")
                          ELSE resultat_net - S("investissements")
        marge_nette == IF revenus_totaux > 0
                       THEN Fraction(resultat_net * 100, revenus_totaux)
                       ELSE ZeroFraction
    IN  [revenus_totaux |-> revenus_totaux, ebitda |-> ebitda,
         resultat_net |-> resultat_net, free_cash_flow |-> free_cash_flow,
         marge_nette |-> marge_nette]
HeaderMatches(t, header) ==
    \E k \in 1..Len(PatternsOf(t)) :
        \/ StrIn(PatternsOf(t)[k], NormalizeColumn(header))
        \/ StrIn(NormalizeColumn(header), PatternsOf(t)[k])
MatchingIndexes(t) == {i \in 1..Len(columns) : HeaderMatches(t, columns[i])}
C7_LowestMatchingHeader ==
    pc = "done" =>
        \A t \in FinancialTypes :
            IF MatchingIndexes(t) = {} THEN t \notin DOMAIN detected
            ELSE /\ t \in DOMAIN detected
                 /\ detected[t] =
                        columns[CHOOSE i \in MatchingIndexes(t) :
                                    \A j \in MatchingIndexes(t) : i <= j]

C7_Witness ==
    /\ pc = "done"
    /\ \E t \in FinancialTypes : Cardinality(MatchingIndexes(t)) >= 2
    /\ \E t \in FinancialTypes : MatchingIndexes(t) = {}
    /\ \E t, u \in DOMAIN detected : t # u /\ detected[t] = detected[u]
    /\ \E t \in DOMAIN detected : detected[t] # NormalizeColumn(detected[t])

\* C8: inserting, at any position, a row whose numeric cells are all 0 or
\* blank leaves the five KPIs unchanged
ZeroRowInserted ==
    \E pos \in 1..(Len(df.rows) + 1), z \in ZeroRows :
        df' = [df EXCEPT !.rows = InsertAt(df.rows, pos, z)]
C8_ZeroRowKeepsKpis ==
    [][(pc = "done" /\ ZeroRowInserted) => kpis' = kpis]_vars

C8_Witness ==
    /\ pc = "done"
    /\ Len(df.rows) >= 2
    /\ df.rows[1] \in ZeroRows
    /\ df.rows[2] \in DataRows
    /\ kpis.revenus_totaux > 0
    /\ kpis.free_cash_flow # 0

\* C9: on the sample dataset detect maps revenus, resultat_net, cash_flow and
\* investissements to the headers of those names, and calculate yields
\* revenus_totaux = 585000, resultat_net = 151000, free_cash_flow = 139000
C9_SampleKpis ==
    SampleUploadAnswered =>
        /\ resp.body.detected_columns["revenus"] = SampleColumns[2]
        /\ resp.body.detected_columns["resultat_net"] = SampleColumns[5]
        /\ resp.body.detected_columns["cash_flow"] = SampleColumns[6]
        /\ resp.body.detected_columns["investissements"] = SampleColumns[7]
        /\ resp.body.kpis.revenus_totaux = Hundredths(585000)
        /\ resp.body.kpis.resultat_net = Hundredths(151000)
        /\ resp.body.kpis.free_cash_flow = Hundredths(139000)

C9_Witness ==
    /\ SampleUploadAnswered
    /\ resp.body.id = 2
    /\ resp.body.kpis.free_cash_flow = Hundredths(175000) - Hundredths(36000)
    /\ resp.body.kpis.marge_nette = [num |-> 3020, den |-> 117]

\* C10: when the cash_flow sum is zero, negative or absent, free_cash_flow is
\* the resultat_net field of the same result minus the investissements sum,
\* also when resultat_net came from its own fallback
C10_FreeCashFlowUsesResultatNet ==
    (pc = "done" /\ SpecColumnSum(df, mapping, "cash_flow") <= 0) =>
        kpis.free_cash_flow =
            kpis.resultat_net - SpecColumnSum(df, mapping, "investissements")

C10_Witness ==
    /\ pc = "done"
    /\ "cash_flow" \in DOMAIN mapping
    /\ SpecColumnSum(df, mapping, "cash_flow") < 0
    /\ "resultat_net" \in DOMAIN mapping
    /\ SpecColumnSum(df, mapping, "resultat_net") < 0
    /\ kpis.resultat_net # SpecColumnSum(df, mapping, "resultat_net")
    /\ SpecColumnSum(df, mapping, "investissements") > 0
    /\ kpis.free_cash_flow =
           kpis.resultat_net - SpecColumnSum(df, mapping, "investissements")

====
